---- MODULE Spec2Model ----
(***************************************************************************)
(* holloway: the URL resolver navigate_internal and the Gemini, Gopher and *)
(* Finger clients it dispatches to.                                        *)
(*                                                                         *)
(* Text is a sequence of one-character strings, so that starts_with,       *)
(* ends_with, contains, trimming and splitting are computed character by   *)
(* character as the code computes them.  A message built by format! from a *)
(* literal and arguments is the concatenation of the literal (kept as one  *)
(* element) and the arguments.                                             *)
(***************************************************************************)
EXTENDS Naturals, Sequences, FiniteSets

\* ---------------------------------------------------------------- bounds
\* Longest generated tail of an input, after one of the Prefixes.
MaxTail == 2
\* Longest generated tail of a server response, after one of the Heads.
MaxResp == 3

\* ------------------------------------------------------- Option<T> values
None == << >>
Some(x) == << x >>
IsSome(o) == Len(o) = 1
Unwrap(o) == o[1]

\* ------------------------------------------------------------ str helpers
Alpha == {"a", "b", "c", "d", "e", "f", "g", "h", "i", "j", "k", "l", "m",
          "n", "o", "p", "q", "r", "s", "t", "u", "v", "w", "x", "y", "z"}
Digit == {"0", "1", "2", "3", "4", "5", "6", "7", "8", "9"}

DigitValue(c) ==
  CASE c = "0" -> 0 [] c = "1" -> 1 [] c = "2" -> 2 [] c = "3" -> 3
    [] c = "4" -> 4 [] c = "5" -> 5 [] c = "6" -> 6 [] c = "7" -> 7
    [] c = "8" -> 8 [] c = "9" -> 9

\* s[from..], empty when from is past the end.
Drop(s, n) == SubSeq(s, n + 1, Len(s))
Take(s, n) == SubSeq(s, 1, n)

\* str::starts_with, str::ends_with, str::contains(char)
StartsWith(s, p) == Len(p) <= Len(s) /\ Take(s, Len(p)) = p
EndsWith(s, p) == Len(p) <= Len(s) /\ Drop(s, Len(s) - Len(p)) = p
Contains(s, c) == \E i \in DOMAIN s : s[i] = c

\* Index of the first (last) element of s that is in C; 0 when there is none.
IndexOf(s, C) ==
  IF \E i \in DOMAIN s : s[i] \in C
    THEN CHOOSE i \in DOMAIN s : s[i] \in C /\ \A j \in 1..(i - 1) : s[j] \notin C
    ELSE 0
LastIndexOf(s, C) ==
  IF \E i \in DOMAIN s : s[i] \in C
    THEN CHOOSE i \in DOMAIN s : s[i] \in C /\ \A j \in (i + 1)..Len(s) : s[j] \notin C
    ELSE 0

\* str::trim_start_matches('/'): every leading occurrence is removed.
RECURSIVE TrimStartMatches(_, _)
TrimStartMatchesOnce(s, c) == IF s # << >> /\ s[1] = c THEN Tail(s) ELSE s
TrimStartMatches(s, c) ==
  IF s # << >> /\ s[1] = c THEN TrimStartMatches(Tail(s), c) ELSE s

\* ------------------------------------------------------ the url crate
\* Url::parse for a scheme that is not special (gemini, gopher, finger and
\* everything else the inputs below can spell; none of http, https, ws, wss,
\* ftp, file).  A parsed URL is a record; a parse error is ParseErr.
ParseErr == [ok |-> FALSE]

\* Leading and trailing C0 control characters and spaces are stripped first.
RECURSIVE TrimLeft(_)
TrimLeft(s) == IF s # << >> /\ s[1] = " " THEN TrimLeft(Tail(s)) ELSE s
RECURSIVE TrimRight(_)
TrimRight(s) ==
  IF s # << >> /\ s[Len(s)] = " " THEN TrimRight(Take(s, Len(s) - 1)) ELSE s
TrimC0Space(s) == TrimRight(TrimLeft(s))

\* Percent-encoding of the characters of the model's alphabet.
PercentHex(c) ==
  CASE c = " " -> <<"%", "2", "0">>
    [] c = "/" -> <<"%", "2", "F">>
    [] c = ":" -> <<"%", "3", "A">>
    [] c = "?" -> <<"%", "3", "F">>
    [] c = "@" -> <<"%", "4", "0">>
    [] OTHER -> <<c>>
RECURSIVE PercentEncode(_, _)
PercentEncode(s, set) ==
  IF s = << >> THEN << >>
  ELSE (IF s[1] \in set THEN PercentHex(s[1]) ELSE <<s[1]>>)
         \o PercentEncode(Tail(s), set)
\* The members of the PATH and USERINFO encode sets that inputs can contain.
PathEncodeSet == {" ", "?"}
UserinfoEncodeSet == {" ", "?", "/", ":", "@"}
\* Forbidden host code points of an opaque host.
ForbiddenHost == {" ", "#", "/", ":", "<", ">", "?", "@", "[", "\\", "]", "^", "|"}

\* The scheme: an ASCII letter, then letters, digits, '+', '-', '.', up to ':'.
SchemeEnd(s) ==
  LET i == IndexOf(s, {":"})
  IN IF /\ i > 1
        /\ s[1] \in Alpha
        /\ \A j \in 2..(i - 1) : s[j] \in Alpha \cup Digit \cup {"+", "-", "."}
       THEN i ELSE 0

\* Parser::parse_port: decimal digits up to the end of the authority; any other
\* character or a value above u16::MAX is an error; no digit at all is None.
RECURSIVE PortValue(_, _)
PortValue(s, acc) ==
  IF s = << >> THEN acc ELSE PortValue(Tail(s), acc * 10 + DigitValue(s[1]))
U16Max == 65535
RECURSIVE PortInRange(_, _)
PortInRange(s, acc) ==
  IF s = << >> THEN TRUE
  ELSE LET v == acc * 10 + DigitValue(s[1])
       IN v <= U16Max /\ PortInRange(Tail(s), v)

\* The path: up to the first '?' or '#', percent-encoded.
PathOf(rest) ==
  LET q == IndexOf(rest, {"?", "#"})
  IN PercentEncode(IF q = 0 THEN rest ELSE Take(rest, q - 1), PathEncodeSet)

\* After "scheme://": userinfo, host, port, then the path.
AfterDoubleSlash(scheme, a) ==
  LET authEnd == IndexOf(a, {"/", "?", "#"})
      auth == IF authEnd = 0 THEN a ELSE Take(a, authEnd - 1)
      remaining == IF authEnd = 0 THEN << >> ELSE Drop(a, authEnd - 1)
      lastAt == LastIndexOf(auth, {"@"})
      userinfo == IF lastAt > 1 THEN Take(auth, lastAt - 1) ELSE << >>
      colon == IndexOf(userinfo, {":"})
      rawUser == IF colon = 0 THEN userinfo ELSE Take(userinfo, colon - 1)
      hasUsername == rawUser # << >>
      hasPassword == colon > 0 /\ colon < Len(userinfo)
      hasAuthority == hasUsername \/ hasPassword
      hostport == Drop(auth, lastAt)
      hc == IndexOf(hostport, {":"})
      hostStr == IF hc = 0 THEN hostport ELSE Take(hostport, hc - 1)
      portStr == IF hc = 0 THEN << >> ELSE Drop(hostport, hc)
  IN IF lastAt = 1 /\ hostport = << >> /\ remaining # << >> THEN ParseErr
     ELSE IF \E i \in DOMAIN hostStr : hostStr[i] \in ForbiddenHost THEN ParseErr
     ELSE IF hostStr = << >> /\ hc > 0 THEN ParseErr
     ELSE IF \E i \in DOMAIN portStr : portStr[i] \notin Digit THEN ParseErr
     ELSE IF ~PortInRange(portStr, 0) THEN ParseErr
     ELSE IF hostStr = << >> /\ hasAuthority THEN ParseErr
     ELSE [ok |-> TRUE,
           scheme |-> scheme,
           username |-> PercentEncode(rawUser, UserinfoEncodeSet),
           host_str |-> IF hostStr = << >> THEN None ELSE Some(hostStr),
           port |-> IF portStr = << >> THEN None ELSE Some(PortValue(portStr, 0)),
           path |-> PathOf(remaining)]

UrlParse(input) ==
  LET s == TrimC0Space(input)
      e == SchemeEnd(s)
      scheme == Take(s, e - 1)
      rest == Drop(s, e)
  IN IF e = 0 THEN ParseErr
     ELSE IF StartsWith(rest, <<"/", "/">>) THEN AfterDoubleSlash(scheme, Drop(rest, 2))
     ELSE [ok |-> TRUE, scheme |-> scheme, username |-> << >>, host_str |-> None,
           port |-> None,
           path |-> IF StartsWith(rest, <<"/">>) THEN PathOf(rest)
                   ELSE LET q == IndexOf(rest, {"?", "#"})
                        IN IF q = 0 THEN rest ELSE Take(rest, q - 1)]

\* ------------------------------------------------------------ literals
GeminiPrefix == <<"g", "e", "m", "i", "n", "i", ":", "/", "/">>
GopherPrefix == <<"g", "o", "p", "h", "e", "r", ":", "/", "/">>
FingerPrefix == <<"f", "i", "n", "g", "e", "r", ":", "/", "/">>
GeminiScheme == <<"g", "e", "m", "i", "n", "i">>
GopherScheme == <<"g", "o", "p", "h", "e", "r">>
FingerScheme == <<"f", "i", "n", "g", "e", "r">>
\* "kennedy.gemi.dev"
KennedyHost ==
  <<"k", "e", "n", "n", "e", "d", "y", ".", "g", "e", "m", "i", ".", "d", "e", "v">>
\* "gemini://kennedy.gemi.dev/search?"
SearchPrefix == GeminiPrefix \o KennedyHost \o <<"/", "s", "e", "a", "r", "c", "h", "?">>
CRLF == <<"\r", "\n">>
GeminiPort == 1965
GopherPort == 70
FingerPort == 79

\* Result<String, String>
Ok(text) == [ok |-> TRUE, text |-> text]
Err(text) == [ok |-> FALSE, text |-> text]

\* format!("gemini://kennedy.gemi.dev/search?{}", url)
SearchFallbackUrlOfRequest(u) ==
  SearchPrefix \o (IF StartsWith(u, GeminiPrefix) THEN u ELSE GeminiPrefix \o u)
SearchFallbackUrl(u) == SearchPrefix \o u

\* The request URL of a gemini fetch: the input, or "gemini://" + input, and a
\* '/' pushed when it contains no '/' or ends with the host.
RequestUrl(u, host) ==
  LET r == IF StartsWith(u, GeminiPrefix) THEN u ELSE GeminiPrefix \o u
  IN IF ~Contains(r, "/") \/ EndsWith(r, host) THEN r \o <<"/">> ELSE r

\* The username of a finger request.
FingerUsernameOnce(p) ==
  IF p.username = << >> THEN TrimStartMatchesOnce(p.path, "/") ELSE p.username
FingerUsername(p) ==
  IF p.username = << >> THEN TrimStartMatches(p.path, "/") ELSE p.username

\* String::from_utf8_lossy: the byte xFF can begin no UTF-8 sequence and is
\* replaced by U+FFFD; the other bytes of the model are ASCII.
FromUtf8Lossy(bytes) ==
  [i \in DOMAIN bytes |-> IF bytes[i] = "xFF" THEN "uFFFD" ELSE bytes[i]]

\* response.windows(2).position(|w| w == b"\r\n"), then pos + 2, or 0.
BodyStartLastCrlf(response) ==
  IF \E i \in 1..(Len(response) - 1) : response[i] = "\r" /\ response[i + 1] = "\n"
    THEN (CHOOSE i \in 1..(Len(response) - 1) :
            /\ response[i] = "\r" /\ response[i + 1] = "\n"
            /\ \A j \in (i + 1)..(Len(response) - 1) :
                  ~(response[j] = "\r" /\ response[j + 1] = "\n")) + 1
    ELSE 0
BodyStart(response) ==
  IF \E i \in 1..(Len(response) - 1) : response[i] = "\r" /\ response[i + 1] = "\n"
    THEN (CHOOSE i \in 1..(Len(response) - 1) :
            /\ response[i] = "\r" /\ response[i + 1] = "\n"
            /\ \A j \in 1..(i - 1) :
                  ~(response[j] = "\r" /\ response[j + 1] = "\n")) + 1
    ELSE 0

\* What connect_and_fetch_gemini returns once read_to_end has succeeded.
GeminiOutcome(response) == Ok(FromUtf8Lossy(Drop(response, BodyStart(response))))
\* What connect_and_fetch_gopher and connect_and_fetch_finger return then.
PlainOutcomeEmptyFails(response) ==
  IF response = << >> THEN Err(<<"empty response">>) ELSE Ok(FromUtf8Lossy(response))
PlainOutcome(response) == Ok(FromUtf8Lossy(response))

\* ------------------------------------------------------------- inputs
TailAlphabet == {"a", "1", ":", "/", "@", " ", "?"}
Tails == UNION {[1..n -> TailAlphabet] : n \in 0..MaxTail}
Prefixes == {<< >>, <<"g", "e", "m", "i", "n", "i", ":">>,
             GeminiPrefix, GopherPrefix, FingerPrefix}
ExampleOrg == <<"e", "x", "a", "m", "p", "l", "e", ".", "o", "r", "g">>
Examples ==
  { <<"e", "x", "a", "m", "p", "l", "e", ".", "g", "m", "i">>,
    <<"h", "e", "l", "l", "o", " ", "w", "o", "r", "l", "d">>,
    GeminiPrefix \o ExampleOrg,
    GeminiPrefix \o ExampleOrg \o <<":", "1", "9", "6", "5">>,
    GeminiPrefix \o ExampleOrg \o <<"/">>,
    GeminiPrefix \o <<"a", "?", "a">>,
    GeminiPrefix \o <<"a", ":", "1">>,
    GeminiPrefix \o <<"a", "/", "a">>,
    GeminiPrefix \o <<"a", ":", "1", "/", "a">>,
    <<"a", ":", "1", "/", "a">>,
    <<"1", ":", "a">>,
    <<"a", "/", "a">>,
    FingerPrefix \o <<"a", "/", "/", "a">>,
    FingerPrefix \o <<"a", ":", "1", "@", "a", "/", "a">>,
    FingerPrefix \o <<":", "1", "@", "a", "/", "a">>,
    FingerPrefix \o <<"a", " ", "a", "@", "a">>,
    FingerPrefix \o <<"a", "/", "a", " ", "a">>,
    GopherPrefix \o <<"a", ":", "1", "/", "/", "a">>,
    <<" ">> \o GeminiPrefix \o <<"a">>,
    FingerPrefix \o <<"u", "s", "e", "r", "@">> \o ExampleOrg,
    FingerPrefix \o ExampleOrg \o <<"/", "b", "o", "b">>,
    FingerPrefix \o ExampleOrg,
    FingerPrefix \o ExampleOrg \o <<":", "7", "9", "7", "9">>,
    GopherPrefix \o ExampleOrg \o <<":", "7", "0", "7", "0">>,
    ExampleOrg,
    <<"s", "p", "a", "r", "t", "a", "n", ":", "/", "/">> \o ExampleOrg \o <<"/">>,
    GopherPrefix \o ExampleOrg \o <<"/", "1", "/", "m", "e", "n", "u">> }
Inputs == {p \o t : p \in Prefixes, t \in Tails} \cup Examples

\* The bytes a server may send before it closes the connection.
RespAlphabet == {" ", "m", "\r", "\n", "xFF"}
RespTails == UNION {[1..n -> RespAlphabet] : n \in 0..MaxResp}
Heads == {<< >>, <<"2">>, <<"2", "0">>, <<"1", "0">>, <<"3", "1">>, <<"4", "4">>,
          <<"5", "1">>, <<"6", "0">>, <<"9", "9">>,
          <<"2", "0", " ", "m">>, <<"5", "1", " ", "m">>}
HelloWorld ==
  <<"2", "0", " ", "t", "e", "x", "t", "/", "g", "e", "m", "i", "n", "i", "\r", "\n",
    "H", "e", "l", "l", "o", ",", " ", "w", "o", "r", "l", "d", "!">>
NotFound ==
  <<"5", "1", " ", "N", "o", "t", " ", "f", "o", "u", "n", "d", "\r", "\n">>
TwoLines == <<"2", "0", " ", "m", "\r", "\n", "a", "\r", "\n", "b", "\r", "\n">>
Responses ==
  {h \o t : h \in Heads, t \in RespTails} \cup {HelloWorld, NotFound, TwoLines}
\* The responses the resolver is explored with.
ResolverResponses == {HelloWorld, NotFound, << >>, <<"2", "0", "\r", "\n", "xFF">>}
\* The inputs the clients are explored with.
ClientInputs ==
  { GeminiPrefix \o ExampleOrg,
    GeminiPrefix \o ExampleOrg \o <<"/">>,
    <<"h", "e", "l", "l", "o", " ", "w", "o", "r", "l", "d">>,
    FingerPrefix \o ExampleOrg \o <<"/", "b", "o", "b">>,
    GopherPrefix \o ExampleOrg \o <<"/", "1", "/", "m", "e", "n", "u">> }
\* The texts of std::io::Error the operating system may report.
IoErrors == {<<"connection reset">>}

\* -------------------------------------------------------------- state
VARIABLES
  url,          \* the input string of the call
  pc,           \* where the call is: "parse", "prefix", "dispatch", "fetch", "done"
  parsed_url,   \* the parsed URL, None before a parse has succeeded
  request_url,  \* the normalized Gemini request URL, << >> before it is built
  phase,        \* which fetch is running: "none", "search", "primary",
                \* "fallback", "gopher", "finger"
  conn,         \* the running fetch: its client, target, request and stage
  fetches,      \* the fetches the call has started, in order
  parses,       \* the strings the call has handed to Url::parse, in order
  result,       \* the outcome returned to the caller, None before that
  parked        \* the locals of a concurrent call that is not running now,
                \* None when the call runs alone

vars ==
  <<url, pc, parsed_url, request_url, phase, conn, fetches, parses, result, parked>>

NoConn == [stage |-> "none"]

\* A client is entered: nothing is resolved, connected or written yet.
NewConn(client, host, port, request) ==
  [client |-> client, host |-> host, port |-> port, request |-> request,
   stage |-> "resolve", wire |-> << >>]
\* The entry of a started fetch in fetches: the call's arguments, then the bytes
\* read_to_end received and the value the client returned, None until then;
\* the steps the client has executed, in order; and its socket: "none" before
\* connect_timeout has succeeded, "open" after it, "closed" once the client has
\* returned and the stream is dropped.
Call(c) ==
  [client |-> c.client, host |-> c.host, port |-> c.port, request |-> c.request,
   received |-> None, returned |-> None, steps |-> << >>, socket |-> "none"]

\* The running client executes the step s.
Stepped(s) == [fetches EXCEPT ![Len(fetches)].steps = Append(@, s)]

\* The stream of a client that returns goes out of scope and is closed.
DropStreamLeaked(socket) == socket
DropStream(socket) == IF socket = "open" THEN "closed" ELSE socket

\* connect_and_fetch_gemini("kennedy.gemi.dev", 1965, &fallback_url)
SearchConnTrimmed(u) ==
  NewConn("gemini", KennedyHost, GeminiPort, SearchFallbackUrl(TrimC0Space(u)))
SearchConn(u) == NewConn("gemini", KennedyHost, GeminiPort, SearchFallbackUrl(u))

\* A client is called; log is the record of the fetches before it.
StartFetch(ph, c, log) ==
  /\ pc' = "fetch"
  /\ phase' = ph
  /\ conn' = c
  /\ fetches' = Append(log, Call(c))
  /\ UNCHANGED result

\* navigate_internal returns r.
Return(r, log) ==
  /\ pc' = "done"
  /\ result' = Some(r)
  /\ conn' = NoConn
  /\ fetches' = log
  /\ UNCHANGED phase

Init ==
  /\ url \in Inputs
  /\ pc = "parse"
  /\ parsed_url = None
  /\ request_url = << >>
  /\ phase = "none"
  /\ conn = NoConn
  /\ fetches = << >>
  /\ parses = << >>
  /\ result = None
  /\ parked = None

InitClient ==
  /\ url \in ClientInputs
  /\ pc = "parse"
  /\ parsed_url = None
  /\ request_url = << >>
  /\ phase = "none"
  /\ conn = NoConn
  /\ fetches = << >>
  /\ parses = << >>
  /\ result = None
  /\ parked = None

\* ------------------------------------------------- navigate_internal
\* Url::parse(&url)
ParseDirect ==
  /\ pc = "parse"
  /\ parses' = Append(parses, url)
  /\ LET p == UrlParse(url)
     IN IF p.ok
          THEN pc' = "dispatch" /\ parsed_url' = Some(p)
          ELSE pc' = "prefix" /\ UNCHANGED parsed_url
  /\ UNCHANGED <<url, request_url, phase, conn, fetches, result, parked>>

\* Url::parse(&format!("gemini://{}", url)); when it fails too, the search
\* fallback is fetched.
ParsePrefixedSkipped ==
  /\ pc = "prefix"
  /\ StartFetch("search", SearchConn(url), fetches)
  /\ UNCHANGED <<url, parsed_url, request_url, parses, parked>>
ParsePrefixed ==
  /\ pc = "prefix"
  /\ LET gemini_url == GeminiPrefix \o url
         p == UrlParse(gemini_url)
     IN /\ parses' = Append(parses, gemini_url)
        /\ IF p.ok
             THEN /\ pc' = "dispatch"
                  /\ parsed_url' = Some(p)
                  /\ UNCHANGED <<phase, conn, fetches, result>>
             ELSE /\ StartFetch("search", SearchConn(url), fetches)
                  /\ UNCHANGED parsed_url
  /\ UNCHANGED <<url, request_url, parked>>

\* Whether a failed fetch of this phase is retried through the search host.
RetriesOnErrorAnyScheme(ph) == ph \in {"primary", "gopher", "finger"}
RetriesOnError(ph) == ph = "primary"

InvalidHost == Err(<<"Invalid host in URL">>)
UnsupportedScheme ==
  Err(<<"Unsupported URL scheme. Only gemini, gopher, and finger are supported.">>)

\* parsed_url.port().unwrap_or(default)
PortOrDefaultOnly(p, default) == default
PortOrDefault(p, default) == IF IsSome(p.port) THEN Unwrap(p.port) ELSE default

\* The arm of any other scheme.
OtherSchemeSearches == StartFetch("search", SearchConn(url), fetches)
OtherScheme == Return(UnsupportedScheme, fetches)

\* match parsed_url.scheme()
Dispatch ==
  /\ pc = "dispatch"
  /\ LET p == Unwrap(parsed_url)
     IN CASE p.scheme = GeminiScheme ->
               IF ~IsSome(p.host_str)
                 THEN Return(InvalidHost, fetches) /\ UNCHANGED request_url
                 ELSE LET host == Unwrap(p.host_str)
                          port == PortOrDefault(p, GeminiPort)
                          r == RequestUrl(url, host)
                      IN /\ request_url' = r
                         /\ StartFetch("primary", NewConn("gemini", host, port, r), fetches)
          [] p.scheme = GopherScheme ->
               /\ UNCHANGED request_url
               /\ IF ~IsSome(p.host_str)
                    THEN Return(InvalidHost, fetches)
                    ELSE StartFetch("gopher",
                           NewConn("gopher", Unwrap(p.host_str),
                                   PortOrDefault(p, GopherPort),
                                   p.path),
                           fetches)
          [] p.scheme = FingerScheme ->
               /\ UNCHANGED request_url
               /\ IF ~IsSome(p.host_str)
                    THEN Return(InvalidHost, fetches)
                    ELSE StartFetch("finger",
                           NewConn("finger", Unwrap(p.host_str),
                                   PortOrDefault(p, FingerPort),
                                   FingerUsername(p)),
                           fetches)
          [] OTHER -> OtherScheme /\ UNCHANGED request_url
  /\ UNCHANGED <<url, parsed_url, parses, parked>>

\* The error navigate_internal returns when the search fallback fetched
\* after two failed parses fails.
SearchErrOwn(e) == Err(e)
SearchErr(e) == Err(<<"Invalid URL format">>)

\* format!("Failed to fetch {}: {}", target, e)
FailedToFetch(target, e) == Err(<<"Failed to fetch ">> \o target \o <<": ">> \o e)

\* The URL echoed in the error of a failed fallback.
FallbackTargetInput == url
FallbackTarget == request_url

\* The running client returns r after the step s, having received the bytes
\* rcv (None when read_to_end did not succeed); the arm of the running phase
\* matches on r.
ClientReturns(r, rcv, s) ==
  LET log == [Stepped(s) EXCEPT ![Len(fetches)].received = rcv,
                                ![Len(fetches)].returned = Some(r),
                                ![Len(fetches)].socket = DropStream(@)]
  IN IF r.ok THEN Return(r, log)
     ELSE IF phase = "search" THEN Return(SearchErr(r.text), log)
     ELSE IF RetriesOnError(phase) THEN StartFetch("fallback", SearchConn(url), log)
     ELSE IF phase = "fallback" THEN Return(FailedToFetch(FallbackTarget, r.text), log)
     ELSE Return(FailedToFetch(url, r.text), log)

\* ------------------------------------------------------- the clients
Fetching == pc = "fetch"
Kept == <<url, parsed_url, request_url, parses, parked>>

\* The error a client returns for a failure e of one of its steps: the Gemini
\* client prefixes what failed, the Gopher and Finger clients return e.to_string().
StepErr(what, e) == IF conn.client = "gemini" THEN Err(<<what>> \o e) ELSE Err(e)

\* socket_addr.to_socket_addrs() and addrs_iter.next()
Resolve ==
  /\ Fetching /\ conn.stage = "resolve"
  /\ \/ /\ conn' = [conn EXCEPT !.stage = "connect"]
        /\ fetches' = Stepped("resolve")
        /\ UNCHANGED <<pc, phase, result>>
     \/ \E e \in IoErrors :
          ClientReturns(StepErr("Failed to resolve socket address: ", e), None, "resolve")
     \/ ClientReturns(IF conn.client = "gemini"
                        THEN Err(<<"No socket addresses found">>)
                        ELSE Err(<<"No addresses found">>), None, "resolve")
  /\ UNCHANGED Kept

\* What follows a TCP connection: the TLS session of the Gemini client, the
\* write of the others.
AfterConnectPlain(client) == "write"
AfterConnect(client) == IF client = "gemini" THEN "tls" ELSE "write"

\* TcpStream::connect_timeout(&addr, Duration::new(10, 0))
ConnectNoTimeout ==
  /\ Fetching /\ conn.stage = "connect" /\ conn.stage = "none"
  /\ UNCHANGED vars
Connect ==
  /\ Fetching /\ conn.stage = "connect"
  /\ \/ /\ conn' = [conn EXCEPT !.stage = AfterConnect(conn.client)]
        /\ fetches' = [Stepped("connect") EXCEPT ![Len(fetches)].socket = "open"]
        /\ UNCHANGED <<pc, phase, result>>
     \/ \E e \in IoErrors :
          ClientReturns(StepErr("TCP connection failed: ", e), None, "connect")
  /\ UNCHANGED Kept

\* builder.build() and connector.connect(host, tcp_stream)
TlsHandshake ==
  /\ Fetching /\ conn.stage = "tls"
  /\ \/ /\ conn' = [conn EXCEPT !.stage = "write"]
        /\ fetches' = Stepped("tls")
        /\ UNCHANGED <<pc, phase, result>>
     \/ \E e \in IoErrors :
          ClientReturns(StepErr("TLS connector creation failed: ", e), None, "tls")
     \/ \E e \in IoErrors :
          ClientReturns(StepErr("TLS connection failed: ", e), None, "tls")
  /\ UNCHANGED Kept

\* write_all(format!("{}\r\n", request).as_bytes())
WriteRequest ==
  /\ Fetching /\ conn.stage = "write"
  /\ \/ /\ conn' = [conn EXCEPT !.stage = "read", !.wire = @ \o conn.request \o CRLF]
        /\ fetches' = Stepped("write")
        /\ UNCHANGED <<pc, phase, result>>
     \/ \E e \in IoErrors :
          ClientReturns(StepErr("Failed to send request: ", e), None, "write")
  /\ UNCHANGED Kept

\* read_to_end(&mut response) and the value the client returns after it.
ReadToEnd(R) ==
  /\ Fetching /\ conn.stage = "read"
  /\ \/ \E response \in R :
          ClientReturns(IF conn.client = "gemini" THEN GeminiOutcome(response)
                        ELSE PlainOutcome(response),
                        Some(response), "read")
     \/ \E e \in IoErrors :
          ClientReturns(StepErr("Failed to read response: ", e), None, "read")
  /\ UNCHANGED Kept

Next ==
  \/ ParseDirect
  \/ ParsePrefixed
  \/ Dispatch
  \/ Resolve
  \/ Connect
  \/ TlsHandshake
  \/ WriteRequest
  \/ ReadToEnd(ResolverResponses)

Spec == Init /\ [][Next]_vars

\* The clients against every response of Responses.
NextClient ==
  \/ ParseDirect
  \/ ParsePrefixed
  \/ Dispatch
  \/ Resolve
  \/ Connect
  \/ TlsHandshake
  \/ WriteRequest
  \/ ReadToEnd(Responses)

SpecClient == InitClient /\ [][NextClient]_vars

\* ------------------------------------------------------------ progress
\* What the code guarantees about the progress of a call.  The statements of
\* navigate_internal are straight-line code and are executed once reached;
\* the resolver answers or fails; connect_timeout returns within 10 seconds;
\* write_all of the one request line completes or fails.  connector.connect
\* and read_to_end wait for the peer on a stream without a timeout: they
\* return when the server answers, closes or the connection errors, and not
\* before, so no fairness is stated for them.
\* The two parse statements are enabled whenever the call stands at them and
\* nothing else is, so their weak fairness is that the call does not stand
\* there for ever.
Fairness ==
  /\ []<>(pc \notin {"parse", "prefix"})
  /\ WF_vars(Dispatch)
  /\ WF_vars(Resolve)
  /\ WF_vars(Connect)
  /\ WF_vars(WriteRequest)

SpecLive == Init /\ [][Next]_vars /\ Fairness

\* ------------------------------------------------------------ navigate
\* The public entry point of simple.rs, with its own copies of the three
\* clients, which are the same statements as those of protocols/.  Its phases
\* are "n_gemini", "n_gopher" and "n_finger"; a failed fetch of any of them is
\* returned as "Failed to fetch <url>: <e>", the last arm of ClientReturns.
InitNavigate ==
  /\ url \in Inputs
  /\ pc = "n_parse"
  /\ parsed_url = None
  /\ request_url = << >>
  /\ phase = "none"
  /\ conn = NoConn
  /\ fetches = << >>
  /\ parses = << >>
  /\ result = None
  /\ parked = None

\* Url::parse(&url), Err(_) => return Err("Invalid URL format")
NavigateParse ==
  /\ pc = "n_parse"
  /\ parses' = Append(parses, url)
  /\ LET p == UrlParse(url)
     IN IF p.ok
          THEN /\ pc' = "n_dispatch"
               /\ parsed_url' = Some(p)
               /\ UNCHANGED <<phase, conn, fetches, result>>
          ELSE /\ Return(Err(<<"Invalid URL format">>), fetches)
               /\ UNCHANGED parsed_url
  /\ UNCHANGED <<url, request_url, parked>>

NavigateUnsupported ==
  Err(<<"Only gemini://, gopher://, and finger:// URLs are supported">>)

\* match parsed_url.scheme()
NavigateDispatch ==
  /\ pc = "n_dispatch"
  /\ LET p == Unwrap(parsed_url)
     IN CASE p.scheme = GeminiScheme ->
               IF ~IsSome(p.host_str)
                 THEN Return(InvalidHost, fetches)
                 ELSE StartFetch("n_gemini",
                        NewConn("gemini", Unwrap(p.host_str),
                                PortOrDefault(p, GeminiPort), url),
                        fetches)
          [] p.scheme = GopherScheme ->
               IF ~IsSome(p.host_str)
                 THEN Return(InvalidHost, fetches)
                 ELSE StartFetch("n_gopher",
                        NewConn("gopher", Unwrap(p.host_str),
                                PortOrDefault(p, GopherPort), p.path),
                        fetches)
          [] p.scheme = FingerScheme ->
               IF ~IsSome(p.host_str)
                 THEN Return(InvalidHost, fetches)
                 ELSE StartFetch("n_finger",
                        NewConn("finger", Unwrap(p.host_str),
                                PortOrDefault(p, FingerPort), FingerUsername(p)),
                        fetches)
          [] OTHER -> Return(NavigateUnsupported, fetches)
  /\ UNCHANGED <<url, parsed_url, request_url, parses, parked>>

NextNavigate ==
  \/ NavigateParse
  \/ NavigateDispatch
  \/ Resolve
  \/ Connect
  \/ TlsHandshake
  \/ WriteRequest
  \/ ReadToEnd(ResolverResponses)

SpecNavigate == InitNavigate /\ [][NextNavigate]_vars

\* ----------------------------------------------------- concurrent calls
\* Two calls of navigate_internal run at the same time.  The functions have
\* no static, no global and no argument shared between calls: every value a
\* call reads or writes is a local of that call.  The model keeps the locals
\* of the call that takes the next step in the variables, and the locals of
\* the other call in parked; Switch hands the processor to the other call, so
\* the steps of the two calls interleave in every order.
CallState ==
  [url |-> url, pc |-> pc, parsed_url |-> parsed_url, request_url |-> request_url,
   phase |-> phase, conn |-> conn, fetches |-> fetches, parses |-> parses,
   result |-> result]

\* The locals of a call that has just been issued for the input u.
FreshCall(u) ==
  [url |-> u, pc |-> "parse", parsed_url |-> None, request_url |-> << >>,
   phase |-> "none", conn |-> NoConn, fetches |-> << >>, parses |-> << >>,
   result |-> None]

ConcInputs ==
  {GeminiPrefix \o ExampleOrg, ExampleOrg,
   <<"h", "e", "l", "l", "o", " ", "w", "o", "r", "l", "d">>}
ConcResponses == {HelloWorld, << >>}

InitConcurrent ==
  /\ url \in ConcInputs
  /\ pc = "parse"
  /\ parsed_url = None
  /\ request_url = << >>
  /\ phase = "none"
  /\ conn = NoConn
  /\ fetches = << >>
  /\ parses = << >>
  /\ result = None
  /\ \E u \in ConcInputs : parked = Some(FreshCall(u))

\* The other call runs next.
SwitchSharedRequestUrl ==
  /\ IsSome(parked)
  /\ parked' = Some(CallState)
  /\ LET c == Unwrap(parked)
     IN /\ url' = c.url /\ pc' = c.pc /\ parsed_url' = c.parsed_url
        /\ phase' = c.phase /\ conn' = c.conn
        /\ fetches' = c.fetches /\ parses' = c.parses /\ result' = c.result
  /\ UNCHANGED request_url
Switch ==
  /\ IsSome(parked)
  /\ parked' = Some(CallState)
  /\ LET c == Unwrap(parked)
     IN /\ url' = c.url /\ pc' = c.pc /\ parsed_url' = c.parsed_url
        /\ request_url' = c.request_url /\ phase' = c.phase /\ conn' = c.conn
        /\ fetches' = c.fetches /\ parses' = c.parses /\ result' = c.result

NextConcurrent ==
  \/ ParseDirect
  \/ ParsePrefixed
  \/ Dispatch
  \/ Resolve
  \/ Connect
  \/ TlsHandshake
  \/ WriteRequest
  \/ ReadToEnd(ConcResponses)
  \/ Switch

SpecConcurrent == InitConcurrent /\ [][NextConcurrent]_vars

\* ========================================================== properties
\* The literals of the claims, written out independently of the model's.
GeminiText == <<"g", "e", "m", "i", "n", "i", ":", "/", "/">>
KennedyText ==
  <<"k", "e", "n", "n", "e", "d", "y", ".", "g", "e", "m", "i", ".", "d", "e", "v">>
SearchUrlText ==
  <<"g", "e", "m", "i", "n", "i", ":", "/", "/", "k", "e", "n", "n", "e", "d", "y", ".",
    "g", "e", "m", "i", ".", "d", "e", "v", "/", "s", "e", "a", "r", "c", "h", "?">>
ExampleGmi == <<"e", "x", "a", "m", "p", "l", "e", ".", "g", "m", "i">>

Started == pc \in {"fetch", "done"}
Parsed == Unwrap(parsed_url)
ResolvesTo(scheme) == IsSome(parsed_url) /\ Parsed.scheme = scheme
HasHost == IsSome(Parsed.host_str)
\* A fetch of the fallback search host for the original input.
IsSearchCall(f) ==
  /\ f.client = "gemini"
  /\ f.host = KennedyText
  /\ f.port = 1965
  /\ f.request = SearchUrlText \o url
HasReturned(f) == IsSome(f.returned)
Returned(f) == Unwrap(f.returned)
\* The input fails the direct parse and the gemini://-prefixed parse.
FailsBoth == ~UrlParse(url).ok /\ ~UrlParse(GeminiText \o url).ok

\* C1: for an input that resolves to the gemini scheme with a host, a primary
\* fetch that succeeds is the result and no second fetch is made; a primary
\* fetch that fails is followed by exactly one more fetch, of
\* kennedy.gemi.dev:1965 with "gemini://kennedy.gemi.dev/search?" + the
\* original input, and never by a third.
C1_GeminiFallbackOnce ==
  (ResolvesTo(GeminiScheme) /\ HasHost /\ Started) =>
    /\ Len(fetches) \in {1, 2}
    /\ fetches[1].client = "gemini"
    /\ fetches[1].host = Unwrap(Parsed.host_str)
    /\ ~HasReturned(fetches[1]) => Len(fetches) = 1 /\ pc = "fetch"
    /\ (HasReturned(fetches[1]) /\ Returned(fetches[1]).ok) =>
         /\ Len(fetches) = 1
         /\ pc = "done"
         /\ result = fetches[1].returned
    /\ (HasReturned(fetches[1]) /\ ~Returned(fetches[1]).ok) =>
         /\ Len(fetches) = 2
         /\ IsSearchCall(fetches[2])
         /\ pc = "done" <=> HasReturned(fetches[2])
C1_Witness ==
  /\ ResolvesTo(GeminiScheme) /\ pc = "done" /\ Len(fetches) = 2
  /\ fetches[1].request # url
  /\ Returned(fetches[2]).ok

\* C2 as stated: for an input that resolves to the gopher or finger scheme,
\* exactly one fetch is made, never of the search host, and its failure is
\* returned to the caller as it is.
C2_Original ==
  ((ResolvesTo(GopherScheme) \/ ResolvesTo(FingerScheme)) /\ pc = "done") =>
    /\ Len(fetches) = 1
    /\ fetches[1].client # "gemini"
    /\ ~Returned(fetches[1]).ok => result = fetches[1].returned
\* C2 amended: with a host, exactly one fetch is started, by the scheme's own
\* client and of the URL's host, never of the search host; its success is the
\* result and its failure e is terminal, returned as "Failed to fetch <input>:
\* <e>".  Without a host no fetch is made and "Invalid host in URL" is returned.
C2_PlainFetchOnce ==
  ((ResolvesTo(GopherScheme) \/ ResolvesTo(FingerScheme)) /\ Started) =>
    IF ~HasHost
      THEN fetches = << >> /\ result = Some(Err(<<"Invalid host in URL">>))
      ELSE /\ Len(fetches) = 1
           /\ fetches[1].client =
                (IF Parsed.scheme = GopherScheme THEN "gopher" ELSE "finger")
           /\ fetches[1].host = Unwrap(Parsed.host_str)
           /\ pc = "done" <=> HasReturned(fetches[1])
           /\ (pc = "done" /\ Returned(fetches[1]).ok) => result = fetches[1].returned
           /\ (pc = "done" /\ ~Returned(fetches[1]).ok) =>
                result = Some(Err(<<"Failed to fetch ">> \o url \o <<": ">>
                                    \o Returned(fetches[1]).text))
C2_Witness ==
  /\ ResolvesTo(FingerScheme) /\ pc = "done" /\ Len(fetches) = 1
  /\ ~Returned(fetches[1]).ok

\* C3: a fetch of the search fallback for an unparseable input is started
\* only after the direct parse and then the gemini://-prefixed parse were both
\* attempted and both failed; an input whose direct parse fails is never
\* fetched before the prefixed parse was attempted; and when the prefixed
\* parse succeeds the call dispatches on the prefixed URL.
C3_PrefixedParseFirst ==
  /\ phase = "search" =>
       /\ parses = <<url, GeminiText \o url>>
       /\ ~UrlParse(parses[1]).ok /\ ~UrlParse(parses[2]).ok
  /\ (~UrlParse(url).ok /\ (fetches # << >> \/ pc = "done")) =>
       parses = <<url, GeminiText \o url>>
  /\ (Len(parses) = 2 /\ UrlParse(GeminiText \o url).ok) =>
       /\ parsed_url = Some(UrlParse(GeminiText \o url))
       /\ phase # "search"
       /\ Started =>
            IF HasHost THEN fetches[1].host = Unwrap(UrlParse(GeminiText \o url).host_str)
            ELSE fetches = << >>
  /\ Len(parses) <= 2
  /\ parses # << >> => parses[1] = url
C3_Witness ==
  /\ Len(parses) = 2 /\ phase = "primary" /\ conn.stage = "read"

\* C4 as stated: every input that fails both parses, and the input
\* "example.gmi", is answered by exactly one Gemini request, of
\* kennedy.gemi.dev:1965 with "gemini://kennedy.gemi.dev/search?" + input.
C4_Original ==
  ((FailsBoth \/ url = ExampleGmi) /\ Started) =>
    /\ Len(fetches) = 1
    /\ IsSearchCall(fetches[1])
\* C4 amended: every input that fails both parses is answered by exactly one
\* Gemini request, of kennedy.gemi.dev:1965 with
\* "gemini://kennedy.gemi.dev/search?" + the input unchanged.  ("example.gmi"
\* is no such input: "gemini://example.gmi" parses, and its host is fetched.)
C4_SearchRequest ==
  /\ (FailsBoth /\ Started) =>
       /\ Len(fetches) = 1
       /\ IsSearchCall(fetches[1])
       /\ phase = "search"
       /\ conn.stage = "read" => conn.wire = SearchUrlText \o url \o <<"\r", "\n">>
  /\ (url = ExampleGmi /\ Started) =>
       /\ fetches[1].host = ExampleGmi
       /\ fetches[1].request = GeminiText \o ExampleGmi \o <<"/">>
C4_Witness ==
  /\ FailsBoth /\ pc = "done" /\ url # TrimC0Space(url)
  /\ IsSome(fetches[1].received)

\* C5 as stated: when both parses fail, the result is the outcome of the
\* fetch of the search fallback, its content or its failure description.
C5_Original ==
  (phase = "search" /\ pc = "done") => result = fetches[1].returned
\* C5 amended: when both parses fail, the content of a successful fetch of
\* the search fallback is the result; when that fetch fails the result is the
\* failure "Invalid URL format" and the fetch's own description is dropped;
\* no further fetch follows.
C5_SearchOutcome ==
  (phase = "search" /\ pc = "done") =>
    /\ Len(fetches) = 1
    /\ HasReturned(fetches[1])
    /\ Returned(fetches[1]).ok => result = fetches[1].returned
    /\ ~Returned(fetches[1]).ok => result = Some(Err(<<"Invalid URL format">>))
C5_Witness ==
  /\ phase = "search" /\ pc = "done" /\ ~Returned(fetches[1]).ok

\* ------------------------------------ the Gemini response, as specified
\* The header line is what precedes the first CRLF; the body is what follows.
Whitespace == {" ", "\t", "\n", "\r"}
HasCrlf(r) == \E i \in 1..(Len(r) - 1) : r[i] = "\r" /\ r[i + 1] = "\n"
FirstCrlf(r) ==
  CHOOSE i \in 1..(Len(r) - 1) :
    /\ r[i] = "\r" /\ r[i + 1] = "\n"
    /\ \A j \in 1..(i - 1) : ~(r[j] = "\r" /\ r[j + 1] = "\n")
HeaderLine(r) == Take(r, FirstCrlf(r) - 1)
BodyBytes(r) == Drop(r, FirstCrlf(r) + 1)
\* The whitespace-separated tokens of a line, in order.
RECURSIVE Tokens(_)
Tokens(s) ==
  IF s = << >> THEN << >>
  ELSE IF s[1] \in Whitespace THEN Tokens(Tail(s))
  ELSE LET e == IndexOf(s, Whitespace)
       IN IF e = 0 THEN <<s>> ELSE <<Take(s, e - 1)>> \o Tokens(Drop(s, e))
\* The tokens after the first, joined with single spaces.
RECURSIVE JoinSpace(_)
JoinSpace(ts) ==
  IF ts = << >> THEN << >>
  ELSE IF Len(ts) = 1 THEN ts[1]
  ELSE ts[1] \o <<" ">> \o JoinSpace(Tail(ts))
StatusCode(r) == Tokens(HeaderLine(r))[1]
MetaText(r) == JoinSpace(Tail(Tokens(HeaderLine(r))))
WellFormed(r) ==
  /\ HasCrlf(r)
  /\ Len(Tokens(HeaderLine(r))) >= 2
  /\ Len(StatusCode(r)) = 2
  /\ \A i \in 1..2 : StatusCode(r)[i] \in Digit
\* The failure of a status whose leading digit is not 2.
StatusFailure(code, meta) ==
  CASE code[1] = "3" -> <<"Redirect (">> \o code \o <<"): ">> \o meta
    [] code[1] = "4" -> <<"Temporary failure (">> \o code \o <<"): ">> \o meta
    [] code[1] = "5" -> <<"Permanent failure (">> \o code \o <<"): ">> \o meta
    [] code[1] = "6" -> <<"Client certificate required (">> \o code \o <<"): ">> \o meta
    [] OTHER -> <<"Unknown status code: ">> \o code \o <<" - ">> \o meta
\* The fetches of the Gemini client that read a response and returned.
GeminiReads ==
  {i \in DOMAIN fetches :
     /\ fetches[i].client = "gemini"
     /\ IsSome(fetches[i].received)
     /\ HasReturned(fetches[i])}
Received(f) == Unwrap(f.received)
\* The status an outcome carries, None when it carries none.
StatusOf(r) == IF "status" \in DOMAIN r THEN Some(r.status) ELSE None

\* C6: a response with a two-digit status and meta text whose leading digit
\* is not 2 makes connect_and_fetch_gemini return the failure of that digit
\* ("51 Not found" gives "Permanent failure (51): Not found"), never success.
C6_StatusFailure ==
  \A i \in GeminiReads :
    LET r == Received(fetches[i])
    IN (WellFormed(r) /\ StatusCode(r)[1] # "2") =>
         /\ ~Returned(fetches[i]).ok
         /\ Returned(fetches[i]).text = StatusFailure(StatusCode(r), MetaText(r))

\* C7: a response whose header line has fewer than two whitespace-separated
\* tokens makes connect_and_fetch_gemini return the failure "Invalid status
\* line format".
C7_InvalidStatusLine ==
  \A i \in GeminiReads :
    LET r == Received(fetches[i])
    IN (HasCrlf(r) /\ Len(Tokens(HeaderLine(r))) < 2) =>
         Returned(fetches[i]) = Err(<<"Invalid status line format">>)

\* C8: a response whose status has the leading digit 2 makes
\* connect_and_fetch_gemini return success, with the bytes after the first
\* CRLF, lossy-decoded, as the body and the first token of the header line as
\* the status ("20 text/gemini\r\nHello, world!" gives "Hello, world!" and 20).
C8_SuccessBodyAndStatus ==
  \A i \in GeminiReads :
    LET r == Received(fetches[i])
    IN (WellFormed(r) /\ StatusCode(r)[1] = "2") =>
         /\ Returned(fetches[i]).ok
         /\ Returned(fetches[i]).text = FromUtf8Lossy(BodyBytes(r))
         /\ StatusOf(Returned(fetches[i])) = Some(StatusCode(r))

\* C9: the request URL of a gemini fetch is the input when it starts with
\* "gemini://" and "gemini://" + input otherwise, with a '/' appended exactly
\* when the URL's path is empty, an explicit port after the host included.
C9_TrailingSlash ==
  (ResolvesTo(GeminiScheme) /\ HasHost /\ Started) =>
    LET base == IF StartsWith(url, GeminiText) THEN url ELSE GeminiText \o url
    IN fetches[1].request = (IF Parsed.path = << >> THEN base \o <<"/">> ELSE base)

\* C10 as stated: the username of a finger request is the URL's user-info
\* when that is not empty, and otherwise the path without one leading slash,
\* further slashes kept.
StripOneSlash(path) == IF path # << >> /\ path[1] = "/" THEN Tail(path) ELSE path
C10_Original ==
  (ResolvesTo(FingerScheme) /\ HasHost /\ Started) =>
    fetches[1].request =
      (IF Parsed.username # << >> THEN Parsed.username ELSE StripOneSlash(Parsed.path))
\* C10 amended: the username of a finger request is the URL's username (the
\* user-info before its first ':', as the parser stores it) when that is not
\* empty, and otherwise the path without all of its leading slashes; it is
\* written followed by CRLF.  "finger://user@example.org" sends "user",
\* "finger://example.org/bob" sends "bob", "finger://example.org" sends "".
Slashes(k) == [i \in 1..k |-> "/"]
C10_FingerUsername ==
  (ResolvesTo(FingerScheme) /\ HasHost /\ Started) =>
    LET sent == fetches[1].request
    IN /\ IF Parsed.username # << >>
            THEN sent = Parsed.username
            ELSE /\ \E k \in 0..Len(Parsed.path) : Parsed.path = Slashes(k) \o sent
                 /\ sent = << >> \/ sent[1] # "/"
       /\ conn.stage = "read" => conn.wire = sent \o <<"\r", "\n">>
       /\ url = FingerPrefix \o <<"u", "s", "e", "r", "@">> \o ExampleOrg =>
            sent = <<"u", "s", "e", "r">>
       /\ url = FingerPrefix \o ExampleOrg \o <<"/", "b", "o", "b">> =>
            sent = <<"b", "o", "b">>
       /\ url = FingerPrefix \o ExampleOrg => sent = << >>
C10_Witness ==
  /\ ResolvesTo(FingerScheme) /\ conn.stage = "read"
  /\ StartsWith(Parsed.path, <<"/", "/">>)
  /\ Parsed.username = << >>

\* C11: the port of a primary fetch is the URL's explicit port when it has one
\* and otherwise the default of its scheme, 1965 for gemini, 70 for gopher and
\* 79 for finger; its host is the host of the parsed URL.
C11_PortAndHost ==
  (Started /\ phase # "search" /\ fetches # << >>) =>
    LET first == fetches[1]
        default == CASE Parsed.scheme = <<"g", "e", "m", "i", "n", "i">> -> 1965
                     [] Parsed.scheme = <<"g", "o", "p", "h", "e", "r">> -> 70
                     [] Parsed.scheme = <<"f", "i", "n", "g", "e", "r">> -> 79
    IN /\ first.port = (IF Parsed.port = None THEN default ELSE Unwrap(Parsed.port))
       /\ first.host = Unwrap(Parsed.host_str)
       /\ url = GopherPrefix \o ExampleOrg \o <<":", "7", "0", "7", "0">> =>
            first.port = 7070 /\ first.host = ExampleOrg
       /\ url = FingerPrefix \o ExampleOrg => first.port = 79 /\ first.host = ExampleOrg
       /\ url = ExampleOrg => first.port = 1965 /\ first.host = ExampleOrg
C11_Witness ==
  /\ ResolvesTo(GopherScheme) /\ pc = "done" /\ Len(fetches) = 1
  /\ Parsed.port = Some(7070) /\ fetches[1].port = 7070

\* C12: an input that parses to a scheme other than gemini, gopher and finger
\* fails at once with the unsupported-scheme error: no connection is opened,
\* the gemini://-prefixed parse is not attempted and the search fallback is not
\* fetched.  (A prefixed parse always yields the gemini scheme, so such a
\* scheme comes from the direct parse.)
Supported ==
  {<<"g", "e", "m", "i", "n", "i">>, <<"g", "o", "p", "h", "e", "r">>,
   <<"f", "i", "n", "g", "e", "r">>}
C12_UnsupportedScheme ==
  /\ (IsSome(parsed_url) /\ Parsed.scheme \notin Supported) =>
       /\ fetches = << >> /\ conn = NoConn /\ phase = "none"
       /\ parses = <<url>>
       /\ pc \in {"dispatch", "done"}
       /\ pc = "done" =>
            result = Some(Err(<<"Unsupported URL scheme. Only gemini, gopher, and finger are supported.">>))
  /\ (UrlParse(url).ok /\ UrlParse(url).scheme \notin Supported) =>
       /\ fetches = << >> /\ Len(parses) <= 1
       /\ pc \in {"parse", "dispatch", "done"}
  /\ Len(parses) = 2 => (IsSome(parsed_url) => Parsed.scheme \in Supported)
C12_Witness ==
  /\ url = <<"s", "p", "a", "r", "t", "a", "n", ":", "/", "/">> \o ExampleOrg \o <<"/">>
  /\ IsSome(parsed_url) /\ Parsed.host_str = Some(ExampleOrg)
  /\ pc = "done" /\ IsSome(result) /\ fetches = << >>

\* C13: the public navigate runs the resolver algorithm of navigate_internal:
\* an input whose direct parse fails is parsed again with the gemini:// prefix;
\* when both parses fail the search fallback is fetched; a Gemini request URL
\* is normalized (prefix and trailing slash); a failed primary Gemini fetch is
\* followed by the fetch of the search fallback; and an input of another
\* scheme gets the resolver's unsupported-scheme error.
C13_NavigateIsResolver ==
  /\ (pc = "done" /\ ~UrlParse(url).ok) => parses = <<url, GeminiText \o url>>
  /\ (pc = "done" /\ FailsBoth) => Len(fetches) = 1 /\ IsSearchCall(fetches[1])
  /\ (url = GeminiText \o ExampleOrg /\ fetches # << >>) =>
       fetches[1].request = GeminiText \o ExampleOrg \o <<"/">>
  /\ (pc = "done" /\ ResolvesTo(GeminiScheme) /\ HasHost
        /\ ~Returned(fetches[1]).ok) =>
       Len(fetches) = 2 /\ IsSearchCall(fetches[2])
  /\ (pc = "done" /\ IsSome(parsed_url) /\ Parsed.scheme \notin Supported) =>
       result = Some(Err(<<"Unsupported URL scheme. Only gemini, gopher, and finger are supported.">>))

\* C14: calls that run at the same time do not affect each other: under every
\* interleaving, what a call parses, the connections it makes, the requests
\* it sends and the outcome it returns are what the call yields alone, a
\* function of its own input and of what its own servers answer.
IsPrefixOf(s, t) == Len(s) <= Len(t) /\ \A i \in 1..Len(s) : s[i] = t[i]
IsSearchCallOf(f, u) ==
  /\ f.client = "gemini" /\ f.host = KennedyText /\ f.port = 1965
  /\ f.request = SearchUrlText \o u
AsRunAlone(c) ==
  LET direct == UrlParse(c.url)
      prefixed == UrlParse(GeminiText \o c.url)
      p == IF direct.ok THEN direct ELSE prefixed
      n == Len(c.fetches)
      base == IF StartsWith(c.url, GeminiText) THEN c.url ELSE GeminiText \o c.url
  IN /\ IsPrefixOf(c.parses, <<c.url, GeminiText \o c.url>>)
     /\ c.parsed_url \in {None, Some(p)}
     /\ n <= 2
     /\ \A i \in 1..n :
          \/ IsSearchCallOf(c.fetches[i], c.url)
          \/ /\ i = 1 /\ p.ok
             /\ c.fetches[i].host = Unwrap(p.host_str)
             /\ \/ c.fetches[i].request \in {base, base \o <<"/">>, p.username}
                \/ \E k \in 0..Len(p.path) : c.fetches[i].request = Drop(p.path, k)
     /\ c.request_url # << >> => n >= 1 /\ c.request_url = c.fetches[1].request
     /\ c.conn # NoConn =>
          /\ n >= 1 /\ ~HasReturned(c.fetches[n])
          /\ c.conn.host = c.fetches[n].host /\ c.conn.port = c.fetches[n].port
          /\ c.conn.request = c.fetches[n].request
          /\ c.conn.wire \in {<< >>, c.fetches[n].request \o <<"\r", "\n">>}
     /\ c.pc = "done" <=> IsSome(c.result)
     /\ c.pc = "done" =>
          IF n = 0
            THEN Unwrap(c.result) \in
                   {Err(<<"Invalid host in URL">>),
                    Err(<<"Unsupported URL scheme. Only gemini, gopher, and finger are supported.">>)}
          ELSE LET last == Returned(c.fetches[n])
               IN IF last.ok THEN c.result = Some(last)
                  ELSE IF n = 2
                    THEN c.result = Some(Err(<<"Failed to fetch ">> \o c.fetches[1].request
                                               \o <<": ">> \o last.text))
                  ELSE IF IsSearchCallOf(c.fetches[1], c.url)
                    THEN c.result = Some(Err(<<"Invalid URL format">>))
                  ELSE c.result = Some(Err(<<"Failed to fetch ">> \o c.url
                                             \o <<": ">> \o last.text))
C14_CallsIndependent ==
  /\ AsRunAlone(CallState)
  /\ IsSome(parked) => AsRunAlone(Unwrap(parked))
C14_Witness ==
  /\ IsSome(parked)
  /\ conn # NoConn /\ conn.stage = "read" /\ phase = "fallback"
  /\ Unwrap(parked).conn # NoConn /\ Unwrap(parked).conn.stage = "read"
  /\ Unwrap(parked).phase = "primary"
  /\ url # Unwrap(parked).url

\* C15 as stated: a call returns, unless a server holds a connection open for
\* ever while the call reads to the close.
C15_Original == <>(pc = "done") \/ <>[](conn.stage = "read")
\* C15 amended: a call returns, unless a server holds a connection open for
\* ever while the call is in the TLS handshake or reads to the close, the two
\* steps that wait for the peer without a timeout.  So when every contacted
\* server eventually answers, closes or errors, the call returns.
C15_ReturnsUnlessServerHolds ==
  <>(pc = "done") \/ <>[](conn.stage \in {"tls", "read"})
C15_Witness ==
  /\ pc = "done" /\ Len(fetches) = 2
  /\ fetches[1].steps = <<"resolve", "connect", "tls">>
  /\ IsSome(fetches[2].received)

\* C16: a call opens at most two connections, and at most one unless it is a
\* Gemini request whose primary fetch failed; at most one connection is open
\* at any moment, the connection of the primary fetch being closed before
\* that of the fallback is opened; and no connection carries a second request.
Count(s, x) == Cardinality({i \in DOMAIN s : s[i] = x})
C16_Connections ==
  LET opened == {i \in DOMAIN fetches : fetches[i].socket # "none"}
      open == {i \in DOMAIN fetches : fetches[i].socket = "open"}
  IN /\ Cardinality(opened) <= 2
     /\ Len(fetches) <= 2
     /\ Len(fetches) = 2 =>
          /\ ResolvesTo(<<"g", "e", "m", "i", "n", "i">>)
          /\ HasReturned(fetches[1]) /\ ~Returned(fetches[1]).ok
          /\ fetches[1].socket # "open"
     /\ Cardinality(open) <= 1
     /\ \A i \in open : i = Len(fetches) /\ ~HasReturned(fetches[i]) /\ pc = "fetch"
     /\ \A i \in DOMAIN fetches :
          /\ Count(fetches[i].steps, "connect") <= 1
          /\ Count(fetches[i].steps, "write") <= 1
          /\ fetches[i].socket # "none" <=>
               (Count(fetches[i].steps, "connect") = 1
                  /\ fetches[i].steps # <<"resolve", "connect">>)
                \/ (fetches[i].steps = <<"resolve", "connect">> /\ ~HasReturned(fetches[i]))
C16_Witness ==
  /\ Len(fetches) = 2
  /\ fetches[1].socket = "closed" /\ "write" \in {fetches[1].steps[i] : i \in DOMAIN fetches[1].steps}
  /\ fetches[2].socket = "open" /\ conn.stage = "read"

\* C17 as stated: when the primary Gemini fetch and the fallback both fail,
\* the failure returned is the fallback's and its message echoes the target
\* URL as the caller supplied it; when the fallback succeeds its content is
\* returned.
C17_Original ==
  (phase = "fallback" /\ pc = "done") =>
    IF Returned(fetches[2]).ok
      THEN result = fetches[2].returned
      ELSE result = Some(Err(<<"Failed to fetch ">> \o url \o <<": ">>
                               \o Returned(fetches[2]).text))
\* C17 amended: when the primary Gemini fetch and the fallback both fail, the
\* failure returned is "Failed to fetch <request URL>: <e>", where e is the
\* error of the fallback (the error of the primary fetch is discarded) and the
\* request URL is the normalized one the primary fetch sent: the input with
\* "gemini://" prepended when it lacks it and "/" appended by the
\* normalization, which differs from the input for "example.org" and for
\* "gemini://example.org".  When the fallback succeeds its content is
\* returned and the error of the primary fetch is not reported.
C17_FallbackOutcome ==
  (phase = "fallback" /\ pc = "done") =>
    LET primary == Returned(fetches[1])
        fallback == Returned(fetches[2])
    IN /\ ~primary.ok
       /\ IF fallback.ok
            THEN result = Some([ok |-> TRUE, text |-> fallback.text])
            ELSE result = Some([ok |-> FALSE,
                                text |-> <<"Failed to fetch ">> \o fetches[1].request
                                           \o <<": ">> \o fallback.text])
       /\ StartsWith(fetches[1].request, GeminiText)
       /\ url = ExampleOrg => fetches[1].request = GeminiText \o ExampleOrg \o <<"/">>
       /\ url = GeminiText \o ExampleOrg =>
            fetches[1].request = GeminiText \o ExampleOrg \o <<"/">>
C17_Witness ==
  /\ phase = "fallback" /\ pc = "done"
  /\ ~Returned(fetches[2]).ok
  /\ Returned(fetches[1]).text # Returned(fetches[2]).text
  /\ fetches[1].request # url

\* C18: within each client the steps run in a fixed order and each at most
\* once: address resolution, TCP connect, the TLS handshake (Gemini only), one
\* write of the request followed by CRLF, the read until the server closes,
\* and then the outcome.  Nothing is written before the connection (and the
\* TLS session of Gemini) is established, and no content is returned before
\* the end of the stream was observed.
StepsOf(client) ==
  IF client = "gemini" THEN <<"resolve", "connect", "tls", "write", "read">>
  ELSE <<"resolve", "connect", "write", "read">>
C18_StepOrder ==
  /\ \A i \in DOMAIN fetches :
       LET f == fetches[i]
       IN /\ IsPrefixOf(f.steps, StepsOf(f.client))
          /\ IsSome(f.received) => f.steps = StepsOf(f.client)
          /\ (HasReturned(f) /\ Returned(f).ok) =>
               IsSome(f.received) /\ f.steps = StepsOf(f.client)
          /\ ~HasReturned(f) => i = Len(fetches) /\ conn # NoConn
  /\ conn # NoConn =>
       LET f == fetches[Len(fetches)]
           done == {f.steps[i] : i \in DOMAIN f.steps}
       IN /\ conn.wire \in {<< >>, f.request \o <<"\r", "\n">>}
          /\ conn.wire # << >> <=> "write" \in done
          /\ conn.wire # << >> =>
               /\ f.socket = "open" /\ "connect" \in done
               /\ f.client = "gemini" => "tls" \in done
C18_Witness ==
  /\ pc = "done" /\ Len(fetches) = 1
  /\ fetches[1].client = "gemini" /\ Returned(fetches[1]).ok
  /\ fetches[1].steps = <<"resolve", "connect", "tls", "write", "read">>

\* The stage a failed fetch of the Gemini client names in its error.
StageErrors(step) ==
  CASE step = "resolve" -> {"Failed to resolve socket address: ", "No socket addresses found"}
    [] step = "connect" -> {"TCP connection failed: "}
    [] step = "tls" -> {"TLS connector creation failed: ", "TLS connection failed: "}
    [] step = "write" -> {"Failed to send request: "}
    [] step = "read" -> {"Failed to read response: "}
\* A client that fails at a stage returns the failure of that stage, having
\* run no later stage, and returns no content.
FailsAtStage(f) ==
  (HasReturned(f) /\ f.received = None) =>
    /\ ~Returned(f).ok
    /\ f.steps # << >> /\ IsPrefixOf(f.steps, StepsOf(f.client))
    /\ f.client = "gemini" => Returned(f).text[1] \in StageErrors(f.steps[Len(f.steps)])
\* C19 as stated: a failure at any stage is returned as the failure of that
\* stage, without a later stage and without partial content; a Gopher or
\* Finger byte stream received to the end, the empty one included, is returned
\* as successful content verbatim.
C19_Original ==
  \A i \in DOMAIN fetches :
    LET f == fetches[i]
    IN /\ FailsAtStage(f)
       /\ (HasReturned(f) /\ f.client # "gemini" /\ IsSome(f.received)) =>
            Returned(f) = [ok |-> TRUE, text |-> Received(f)]
\* C19 amended: the same, but the content returned is the lossy UTF-8 decoding
\* of the bytes received: a byte that is not valid UTF-8 comes back as U+FFFD,
\* and a stream of valid UTF-8, the empty one included, comes back unchanged.
Utf8Lossy(b) == [i \in DOMAIN b |-> IF b[i] \in {"xFF"} THEN "uFFFD" ELSE b[i]]
C19_StageFailureAndContent ==
  \A i \in DOMAIN fetches :
    LET f == fetches[i]
    IN /\ FailsAtStage(f)
       /\ (HasReturned(f) /\ ~Returned(f).ok /\ f.client # "gemini") => f.received = None
       /\ (HasReturned(f) /\ f.client # "gemini" /\ IsSome(f.received)) =>
            /\ Returned(f) = [ok |-> TRUE, text |-> Utf8Lossy(Received(f))]
            /\ Received(f) = << >> => Returned(f) = [ok |-> TRUE, text |-> << >>]
            /\ (\A k \in DOMAIN Received(f) : Received(f)[k] # "xFF") =>
                 Returned(f).text = Received(f)
C19_Witness ==
  /\ pc = "done" /\ Len(fetches) = 1
  /\ fetches[1].client = "finger"
  /\ fetches[1].received = Some(<< >>)
  /\ result = Some([ok |-> TRUE, text |-> << >>])

\* C20: the Gemini client splits the response at its first CRLF, wherever
\* later CRLFs are: the body it returns is what follows the first CRLF, and
\* what precedes it, the header, contains no CRLF.  A response without any
\* CRLF is all body, with an empty header.
C20_SplitAtFirstCrlf ==
  \A i \in GeminiReads :
    LET r == Received(fetches[i])
        body == Returned(fetches[i]).text
    IN IF HasCrlf(r)
         THEN \E k \in 1..(Len(r) - 1) :
                /\ r[k] = "\r" /\ r[k + 1] = "\n"
                /\ ~HasCrlf(SubSeq(r, 1, k))
                /\ body = Utf8Lossy(SubSeq(r, k + 2, Len(r)))
         ELSE body = Utf8Lossy(r)
C20_Witness ==
  /\ pc = "done" /\ Len(fetches) = 1 /\ fetches[1].client = "gemini"
  /\ fetches[1].received =
       Some(<<"2", "0", " ", "m", "\r", "\n", "a", "\r", "\n", "b", "\r", "\n">>)
  /\ result = Some([ok |-> TRUE, text |-> <<"a", "\r", "\n", "b", "\r", "\n">>])

====
